---- MODULE Spec2Model ----
(***************************************************************************)
(* Model of dataset.py: the four image transformations (random_rotation,   *)
(* random_cutout, random_crop, contrast_and_horizontal_flipping) and the   *)
(* augmentation loop of main.                                              *)
(*                                                                         *)
(* An image is a function channel -> row -> column -> value, indexed from  *)
(* 0 as in the source.  A uint8 array holds integers 0..255.  A float64    *)
(* array holds exact fixed-point numbers: the integer x stands for the     *)
(* real value x / AlphaDen (see ToFloat).                                  *)
(***************************************************************************)
EXTENDS Integers, Sequences, FiniteSets, TLC

HEIGHT == 32
CHANNELS == 3

\* Number of valid test images the transforms are applied to.
NumImages == 2
\* alpha is drawn from the multiples of 1/AlphaDen in [0.5, 2.0]; float64
\* values are carried as integer multiples of 1/AlphaDen.
AlphaDen == 4
\* Size of the dataset in the augmentation loop (50000 in the program).
DatasetSize == 2

VARIABLES
  input_image,       \* harness: the image the transform is called with
  call,              \* harness: the transform call made, its draws and outcome
  images,            \* main: unaugmented_dataset["images"]
  labels,            \* main: labels
  operations,        \* main: operations
  loop_i,            \* main: the loop variable i (images processed so far)
  augmented_images,  \* main: augmented_images
  drawlog,           \* main: the random draws each iteration consumed
  augmented_dataset, \* main: augmented_dataset (NoDataset until built)
  pc                 \* position in the harness or in main

vars == <<input_image, call, images, labels, operations, loop_i,
          augmented_images, drawlog, augmented_dataset, pc>>

--------------------------------------------------------------------------
(* Arrays *)

Shape(img) == <<Cardinality(DOMAIN img), Cardinality(DOMAIN img[0]), Cardinality(DOMAIN img[0][0])>>

\* np.zeros((h, w))
ZeroPlane(h, w) == [r \in 0..(h - 1) |-> [k \in 0..(w - 1) |-> 0]]

\* np.zeros((c, h, w))
Zeros(c, h, w) == [ch \in 0..(c - 1) |-> ZeroPlane(h, w)]

\* Storing an integer into a float64 array.
ToFloat(v) == AlphaDen * v

\* A valid test image: uint8 values that differ between a pixel and its
\* mirror, its neighbours and the other channels, on both sides of 128.
TestPixel(n, ch, r, k) == (37 * n + 53 * ch + 7 * r + 11 * k + 3 * r * k + 90) % 256

TestImage(n, h, w) == [ch \in 0..(CHANNELS - 1) |-> [r \in 0..(h - 1) |-> [k \in 0..(w - 1) |-> TestPixel(n, ch, r, k)]]]

ValidImages == {TestImage(n, HEIGHT, HEIGHT) : n \in 1..NumImages}

\* Inputs whose shape is not 3x32x32 (one larger, one smaller).
WrongShapedImages == {TestImage(1, HEIGHT + 1, HEIGHT + 1), TestImage(1, HEIGHT - 1, HEIGHT - 1)}

IsValidShape(img) == Shape(img) = <<CHANNELS, HEIGHT, HEIGHT>>

\* random.randint(a, b), sampled at the two ends of the closed range
Randint(a, b) == {a, b}

--------------------------------------------------------------------------
(* random_rotation *)

TrigScale == 1000000

\* round(cos(d degrees) * TrigScale) for d = 0..90, at index d + 1.
CosTable ==
   << 1000000, 999848, 999391, 998630, 997564, 996195, 994522,
      992546, 990268, 987688, 984808, 981627, 978148, 974370,
      970296, 965926, 961262, 956305, 951057, 945519, 939693,
      933580, 927184, 920505, 913545, 906308, 898794, 891007,
      882948, 874620, 866025, 857167, 848048, 838671, 829038,
      819152, 809017, 798636, 788011, 777146, 766044, 754710,
      743145, 731354, 719340, 707107, 694658, 681998, 669131,
      656059, 642788, 629320, 615661, 601815, 587785, 573576,
      559193, 544639, 529919, 515038, 500000, 484810, 469472,
      453990, 438371, 422618, 406737, 390731, 374607, 358368,
      342020, 325568, 309017, 292372, 275637, 258819, 241922,
      224951, 207912, 190809, 173648, 156434, 139173, 121869,
      104528, 87156, 69756, 52336, 34899, 17452, 0 >>

Abs(x) == IF x < 0 THEN -x ELSE x

\* np.sin(np.radians(deg)) * TrigScale, deg in -180..180
Sin(deg) ==
  LET s == IF Abs(deg) <= 90 THEN CosTable[(90 - Abs(deg)) + 1] ELSE CosTable[(Abs(deg) - 90) + 1]
  IN IF deg < 0 THEN -s ELSE s

CosSwapped(deg) == Sin(deg)

\* np.cos(np.radians(deg)) * TrigScale, deg in -180..180
Cos(deg) == IF Abs(deg) <= 90 THEN CosTable[Abs(deg) + 1] ELSE -CosTable[(180 - Abs(deg)) + 1]

\* np.rint(n / d) for d > 0: round to nearest, ties to even
Rint(n, d) ==
  LET q == n \div d
      r == n % d
  IN IF 2 * r < d THEN q
     ELSE IF 2 * r > d THEN q + 1
     ELSE IF q % 2 = 0 THEN q ELSE q + 1

\* How .astype("uint8") treats a negative float64: C leaves the conversion
\* undefined; x86 builds wrap modulo 256, ARM builds saturate to 0.
CastOutcomes == {"wrap", "saturate"}

\* .astype("uint8") of an integral float64 x
AsUint8(x, cast) == IF x < 0 /\ cast = "saturate" THEN 0 ELSE x % 256

\* The rounded destination row before the cast:
\* rint((i - 15.5) * cos + (j - 15.5) * sin + 15.5)
RawRow(cos, sin, i, j) == Rint((2 * i - 31) * cos + (2 * j - 31) * sin + 31 * TrigScale, 2 * TrigScale)

\* rint((j - 15.5) * cos - (i - 15.5) * sin + 15.5)
RawCol(cos, sin, i, j) == Rint((2 * j - 31) * cos - (2 * i - 31) * sin + 31 * TrigScale, 2 * TrigScale)

\* if ni >= 0 and ni < 32 and nj >= 0 and nj < 32
InRangeTest(ni, nj) == ni >= 0 /\ ni < 32 /\ nj >= 0 /\ nj < 32

\* for channel in range(CHANNELS): output_image[channel][ni][nj] = input_image[channel][i][j]
RECURSIVE RotChannels(_, _, _, _, _, _, _)
RotChannels(out, img, channel, i, j, ni, nj) ==
  IF channel >= CHANNELS THEN out
  ELSE RotChannels([out EXCEPT ![channel][ni][nj] = ToFloat(img[channel][i][j])],
                   img, channel + 1, i, j, ni, nj)

\* The body of the if.  An accumulator is [status, image, src, dst]: src
\* marks the source pixels copied somewhere, dst the destination pixels
\* written.  Reading outside the input (of shape shp) raises IndexError.
RotPixel(acc, img, shp, i, j, ni, nj) ==
  IF shp[1] < CHANNELS \/ i >= shp[2] \/ j >= shp[3]
  THEN [acc EXCEPT !.status = "IndexError"]
  ELSE [acc EXCEPT !.image = RotChannels(acc.image, img, 0, i, j, ni, nj),
                   !.src[i][j] = TRUE,
                   !.dst[ni][nj] = TRUE]

\* for j in range(0, HEIGHT)
RECURSIVE RotCols(_, _, _, _, _, _, _, _)
RotCols(acc, img, shp, cos, sin, cast, i, j) ==
  IF j >= HEIGHT \/ acc.status # "ok" THEN acc
  ELSE LET ni == AsUint8(RawRow(cos, sin, i, j), cast)
           nj == AsUint8(RawCol(cos, sin, i, j), cast)
       IN RotCols(IF InRangeTest(ni, nj) THEN RotPixel(acc, img, shp, i, j, ni, nj) ELSE acc,
                  img, shp, cos, sin, cast, i, j + 1)

\* for i in range(0, HEIGHT)
RECURSIVE RotRows(_, _, _, _, _, _, _)
RotRows(acc, img, shp, cos, sin, cast, i) ==
  IF i >= HEIGHT \/ acc.status # "ok" THEN acc
  ELSE RotRows(RotCols(acc, img, shp, cos, sin, cast, i, 0), img, shp, cos, sin, cast, i + 1)

\* random_rotation(input_image) with the draw theta; theta is negated
\* before the trigonometry.
random_rotation(img, theta, cast) ==
  RotRows([status |-> "ok",
           image |-> Zeros(CHANNELS, HEIGHT, HEIGHT),
           src |-> [r \in 0..(HEIGHT - 1) |-> [k \in 0..(HEIGHT - 1) |-> FALSE]],
           dst |-> [r \in 0..(HEIGHT - 1) |-> [k \in 0..(HEIGHT - 1) |-> FALSE]]],
          img, Shape(img), Cos(-theta), Sin(-theta), cast, 0)

\* The angles drawn by random.randint(-180, 180), sampled.  The table agrees
\* with the float64 computation on every pixel for every angle but the four
\* odd multiples of 45 degrees, which are left out.
Thetas == {-180, -150, -90, -60, -1, 0, 1, 30, 90, 120, 179, 180}

--------------------------------------------------------------------------
(* random_cutout *)

\* for j in range(tly, bry + 1): output_image[channel][i][j] = value[channel]
\* An accumulator is [status, image]; writing outside the copy (of shape
\* shp) raises IndexError.
RECURSIVE CutCols(_, _, _, _, _, _, _)
CutCols(acc, shp, v, channel, i, j, bry) ==
  IF j >= bry + 1 \/ acc.status # "ok" THEN acc
  ELSE CutCols(IF channel >= shp[1] \/ i >= shp[2] \/ j >= shp[3]
               THEN [acc EXCEPT !.status = "IndexError"]
               ELSE [acc EXCEPT !.image[channel][i][j] = v],
               shp, v, channel, i, j + 1, bry)

\* The row loop with range(tlx, brx): the last row is left out.
RECURSIVE CutRowsExclusive(_, _, _, _, _, _, _, _)
CutRowsExclusive(acc, shp, v, channel, i, brx, tly, bry) ==
  IF i >= brx \/ acc.status # "ok" THEN acc
  ELSE CutRowsExclusive(CutCols(acc, shp, v, channel, i, tly, bry), shp, v, channel, i + 1, brx, tly, bry)

\* for i in range(tlx, brx + 1)
RECURSIVE CutRows(_, _, _, _, _, _, _, _)
CutRows(acc, shp, v, channel, i, brx, tly, bry) ==
  IF i >= brx + 1 \/ acc.status # "ok" THEN acc
  ELSE CutRows(CutCols(acc, shp, v, channel, i, tly, bry), shp, v, channel, i + 1, brx, tly, bry)

\* for channel in range(CHANNELS)
RECURSIVE CutChannels(_, _, _, _, _, _, _, _)
CutChannels(acc, shp, value, channel, tlx, brx, tly, bry) ==
  IF channel >= CHANNELS \/ acc.status # "ok" THEN acc
  ELSE CutChannels(CutRows(acc, shp, value[channel], channel, tlx, brx, tly, bry),
                   shp, value, channel + 1, tlx, brx, tly, bry)

\* random_cutout(input_image) from output_image = np.copy(input_image) on,
\* with the draws value, tlx, tly, brx, bry (width and height only bound
\* the draws of tlx and tly)
random_cutout(img, value, tlx, tly, brx, bry) ==
  CutChannels([status |-> "ok", image |-> img], Shape(img), value, 0, tlx, brx, tly, bry)

\* The draws of random_cutout, sampled: width and height, the fill value
\* (np.random.randint(0, 256, 3), indexed by channel), then the corners.
CutoutWidths == {0, 16}
CutoutHeights == {0, 16}
CutoutValues == {[ch \in 0..(CHANNELS - 1) |-> 10 * (ch + 1)], [ch \in 0..(CHANNELS - 1) |-> 255 - 127 * ch]}

CutoutDraws ==
  UNION {UNION {UNION {{[width |-> w, height |-> h, value |-> v,
                         tlx |-> tlx, tly |-> tly, brx |-> brx, bry |-> bry] :
                          brx \in Randint(tlx, 31), bry \in Randint(tly, 31)} :
                       tlx \in Randint(0, 31 - w), tly \in Randint(0, 31 - h)} :
                w \in CutoutWidths, h \in CutoutHeights} :
         v \in CutoutValues}

--------------------------------------------------------------------------
(* random_crop *)

\* np.pad(plane, pad_width=2, mode="constant", constant_values=0) of an
\* h x w plane, stored into the float64 padded_image
Pad(plane, h, w) ==
  [r \in 0..(h + 3) |-> [k \in 0..(w + 3) |->
     IF r >= 2 /\ r < h + 2 /\ k >= 2 /\ k < w + 2 THEN ToFloat(plane[r - 2][k - 2]) ELSE 0]]

\* The slice with the row offset used for the columns too.
SliceRowOffsetTwice(plane, r0, r1, k0, k1) ==
  [r \in 0..(r1 - r0 - 1) |-> [k \in 0..(k1 - k0 - 1) |-> plane[r0 + r][r0 + k]]]

\* plane[r0:r1, k0:k1], the bounds inside the plane
Slice(plane, r0, r1, k0, k1) ==
  [r \in 0..(r1 - r0 - 1) |-> [k \in 0..(k1 - k0 - 1) |-> plane[r0 + r][k0 + k]]]

\* random_crop(input_image) with the draws tlx, tly.  Assigning a padded
\* plane that is not 36x36 into padded_image[channel] raises ValueError.
random_crop(img, tlx, tly) ==
  LET shp == Shape(img)
      brx == tlx + HEIGHT
      bry == tly + HEIGHT
      padded_image == [channel \in 0..(CHANNELS - 1) |-> Pad(img[channel], shp[2], shp[3])]
  IN IF shp[1] < CHANNELS THEN [status |-> "IndexError", image |-> <<>>]
     ELSE IF shp[2] + 4 # HEIGHT + 4 \/ shp[3] + 4 # HEIGHT + 4
          THEN [status |-> "ValueError", image |-> <<>>]
     ELSE [status |-> "ok",
           image |-> [channel \in 0..(CHANNELS - 1) |-> Slice(padded_image[channel], tlx, brx, tly, bry)]]

--------------------------------------------------------------------------
(* contrast_and_horizontal_flipping *)

\* How a uint8 scalar combines with the Python int 128: NumPy 1.x promotes
\* by value to int64 ("legacy"), NumPy 2.x keeps uint8 ("nep50").
Promotions == {"legacy", "nep50"}

\* input_image[channel][i][j] - 128
Minus128(v, promotion) == IF promotion = "nep50" THEN (v - 128) % 256 ELSE v - 128

\* alpha * (input_image[channel][i][j] - 128) + 128, alpha = a / AlphaDen
ContrastPixel(a, v, promotion) == a * Minus128(v, promotion) + 128 * AlphaDen

NoClip(x) == x

\* np.clip(x, 0, 255) of one value
Clip(x) == IF x < 0 THEN 0 ELSE IF x > 255 * AlphaDen THEN 255 * AlphaDen ELSE x

\* The contrast loops followed by np.clip
Contrast(img, a, promotion) ==
  [channel \in 0..(CHANNELS - 1) |-> [i \in 0..31 |-> [j \in 0..31 |->
     Clip(ContrastPixel(a, img[channel][i][j], promotion))]]]

\* for j in range(0, HEIGHT // 2): the pair assignment, both sides read
\* from input_image
RECURSIVE FlipRow(_, _, _)
FlipRow(row, inrow, j) ==
  IF j >= HEIGHT \div 2 THEN row
  ELSE FlipRow([row EXCEPT ![j] = ToFloat(inrow[HEIGHT - 1 - j]),
                           ![HEIGHT - 1 - j] = ToFloat(inrow[j])],
               inrow, j + 1)

\* The flip loops over channel and i
Flip(out, img) ==
  [channel \in 0..(CHANNELS - 1) |-> [i \in 0..(HEIGHT - 1) |-> FlipRow(out[channel][i], img[channel][i], 0)]]

\* contrast_and_horizontal_flipping(input_image) with the draws
\* alpha = a / AlphaDen and probability = p / 10
contrast_and_horizontal_flipping(img, a, p, promotion) ==
  LET shp == Shape(img)
  IN IF shp[1] < CHANNELS \/ shp[2] < 32 \/ shp[3] < 32
     THEN [status |-> "IndexError", image |-> <<>>]
     ELSE [status |-> "ok",
           image |-> IF p > 5 THEN Flip(Contrast(img, a, promotion), img)
                     ELSE Contrast(img, a, promotion)]

\* random.uniform(0.5, 2.0), sampled: the multiples of 1/AlphaDen in the
\* range (numerators over AlphaDen)
Alphas == {a \in 0..(2 * AlphaDen) : 2 * a >= AlphaDen}

\* random.random(), sampled, in tenths
Probabilities == {5, 9}

--------------------------------------------------------------------------
(* Calling one transform on one image *)

NoCall == [fn |-> "none"]
NoDataset == [labels |-> <<>>, images |-> <<>>]

Init ==
  /\ input_image \in ValidImages \cup WrongShapedImages
  /\ call = NoCall
  /\ images = <<>>
  /\ labels = <<>>
  /\ operations = <<>>
  /\ loop_i = 0
  /\ augmented_images = <<>>
  /\ drawlog = <<>>
  /\ augmented_dataset = NoDataset
  /\ pc = "call"

MainVars == <<images, labels, operations, loop_i, augmented_images, drawlog, augmented_dataset>>

RandomRotation ==
  /\ pc = "call"
  /\ \E theta \in Thetas, cast \in CastOutcomes :
       LET res == random_rotation(input_image, theta, cast)
       IN call' = [fn |-> "random_rotation", theta |-> theta, cast |-> cast,
                   status |-> res.status, dtype |-> "float64", image |-> res.image,
                   src |-> res.src, dst |-> res.dst]
  /\ pc' = "returned"
  /\ UNCHANGED <<input_image, MainVars>>

RandomCutout ==
  /\ pc = "call"
  /\ \E d \in CutoutDraws :
       LET res == random_cutout(input_image, d.value, d.tlx, d.tly, d.brx, d.bry)
       IN call' = [fn |-> "random_cutout", draws |-> d,
                   status |-> res.status, dtype |-> "uint8", image |-> res.image]
  /\ pc' = "returned"
  /\ UNCHANGED <<input_image, MainVars>>

RandomCrop ==
  /\ pc = "call"
  /\ \E tlx \in 0..4, tly \in 0..4 :
       LET res == random_crop(input_image, tlx, tly)
       IN call' = [fn |-> "random_crop", tlx |-> tlx, tly |-> tly,
                   status |-> res.status, dtype |-> "float64", image |-> res.image]
  /\ pc' = "returned"
  /\ UNCHANGED <<input_image, MainVars>>

ContrastAndHorizontalFlipping ==
  /\ pc = "call"
  /\ \E a \in Alphas, p \in Probabilities, promotion \in Promotions :
       LET res == contrast_and_horizontal_flipping(input_image, a, p, promotion)
       IN call' = [fn |-> "contrast_and_horizontal_flipping", alpha |-> a, p |-> p,
                   promotion |-> promotion,
                   status |-> res.status, dtype |-> "float64", image |-> res.image]
  /\ pc' = "returned"
  /\ UNCHANGED <<input_image, MainVars>>

Next ==
  \/ RandomRotation
  \/ RandomCutout
  \/ RandomCrop
  \/ ContrastAndHorizontalFlipping

Spec == Init /\ [][Next]_vars

--------------------------------------------------------------------------
(* main: generating the augmented training set *)

\* NUM_TRAIN_BATCHES * IMAGES_PER_BATCH, the number of images
NumTrain == DatasetSize

\* unaugmented_dataset["images"], reshaped to (N, 3, 32, 32)
DatasetImages == [n \in 0..(NumTrain - 1) |-> TestImage(n + 1, HEIGHT, HEIGHT)]

\* labels, one of the ten CIFAR-10 classes per image
DatasetLabels == [n \in 0..(NumTrain - 1) |-> (3 * n + 1) % 10]

\* The draws one loop iteration may consume, sampled, by operation
LoopDraws(operation) ==
  IF operation = 0 THEN {[theta |-> 30, cast |-> "wrap"]}
  ELSE IF operation = 1 THEN {d \in CutoutDraws : d.width = 16 /\ d.height = 16 /\ d.value[0] = 10 /\ d.tlx = 15 /\ d.tly = 15 /\ d.bry = 31}
  ELSE IF operation = 2 THEN {[tlx |-> 0, tly |-> 3]}
  ELSE {[alpha |-> 2 * AlphaDen, p |-> p, promotion |-> "legacy"] : p \in Probabilities}

OgImageFirst(imgs, i) == imgs[0]

\* og_image = unaugmented_dataset["images"][i]
OgImage(imgs, i) == imgs[i]

\* The if / elif chain on operation: the array returned, with its dtype
Dispatch(operation, og_image, d) ==
  IF operation = 0
  THEN [dtype |-> "float64", image |-> random_rotation(og_image, d.theta, d.cast).image]
  ELSE IF operation = 1
  THEN [dtype |-> "uint8", image |-> random_cutout(og_image, d.value, d.tlx, d.tly, d.brx, d.bry).image]
  ELSE IF operation = 2
  THEN [dtype |-> "float64", image |-> random_crop(og_image, d.tlx, d.tly).image]
  ELSE [dtype |-> "float64", image |-> contrast_and_horizontal_flipping(og_image, d.alpha, d.p, d.promotion).image]

\* One array of np.array(augmented_images): the list mixes uint8 and
\* float64 arrays, so the stacked array is float64
AsFloat64(arr) ==
  IF arr.dtype = "float64" THEN arr.image
  ELSE [c \in DOMAIN arr.image |-> [r \in DOMAIN arr.image[c] |-> [k \in DOMAIN arr.image[c][r] |->
          ToFloat(arr.image[c][r][k])]]]

\* The state when the loop is reached: operations = np.random.randint(0, 4, N)
MainInit ==
  /\ input_image = <<>>
  /\ call = NoCall
  /\ images = DatasetImages
  /\ labels = DatasetLabels
  /\ operations \in [0..(NumTrain - 1) -> 0..3]
  /\ loop_i = 0
  /\ augmented_images = <<>>
  /\ drawlog = <<>>
  /\ augmented_dataset = NoDataset
  /\ pc = "loop"

\* One iteration of the for loop
Augment ==
  /\ pc = "loop"
  /\ loop_i < NumTrain
  /\ \E d \in LoopDraws(operations[loop_i]) :
       /\ augmented_images' = Append(augmented_images,
                                     Dispatch(operations[loop_i], OgImage(images, loop_i), d))
       /\ drawlog' = Append(drawlog, d)
  /\ loop_i' = loop_i + 1
  /\ UNCHANGED <<input_image, call, images, labels, operations, augmented_dataset, pc>>

\* After the loop: augmented_dataset = {"labels": labels, "images": np.array(...).reshape(...)}
BuildDataset ==
  /\ pc = "loop"
  /\ loop_i = NumTrain
  /\ augmented_dataset' = [labels |-> labels,
                           images |-> [n \in 0..(NumTrain - 1) |-> AsFloat64(augmented_images[n + 1])]]
  /\ pc' = "done"
  /\ UNCHANGED <<input_image, call, images, labels, operations, loop_i, augmented_images, drawlog>>

MainNext ==
  \/ Augment
  \/ BuildDataset

SpecMain == MainInit /\ [][MainNext]_vars

--------------------------------------------------------------------------
(* Properties of the transforms *)

Channels == 0..(CHANNELS - 1)
Pix == 0..(HEIGHT - 1)

Returned(fn) == call.fn = fn /\ pc = "returned"
ValidCall(fn) == Returned(fn) /\ IsValidShape(input_image)

\* The largest pixel value, 255, in the units of the returned array
MaxValue == IF call.dtype = "uint8" THEN 255 ELSE ToFloat(255)

\* C1: in contrast_and_horizontal_flipping, whenever the flip draw is
\* > 0.5, every returned pixel [c][i][j] equals the contrast-stage value
\* (the clipped alpha * (input - 128) + 128) of pixel [c][i][31 - j].
C1_FlipMirrorsContrastStage ==
  (ValidCall("contrast_and_horizontal_flipping") /\ call.p > 5) =>
    /\ call.status = "ok"
    /\ \A c \in Channels, i \in Pix, j \in Pix :
         call.image[c][i][j] = Contrast(input_image, call.alpha, call.promotion)[c][i][31 - j]

\* C2: in random_cutout the rectangle [tlx, brx] x [tly, bry] lies inside the
\* image, every returned pixel inside it holds the fill value of its
\* channel, and every pixel outside it is the input pixel.
C2_CutoutExact ==
  ValidCall("random_cutout") =>
    LET d == call.draws IN
    /\ call.status = "ok"
    /\ 0 <= d.tlx /\ d.tlx <= d.brx /\ d.brx <= 31
    /\ 0 <= d.tly /\ d.tly <= d.bry /\ d.bry <= 31
    /\ \A c \in Channels, i \in Pix, j \in Pix :
         call.image[c][i][j] =
           IF d.tlx <= i /\ i <= d.brx /\ d.tly <= j /\ j <= d.bry
           THEN d.value[c] ELSE input_image[c][i][j]

\* A cutout of a valid image whose rectangle spans several rows and leaves
\* pixels outside it.
C2_Witness ==
  /\ ValidCall("random_cutout")
  /\ call.draws.brx > call.draws.tlx
  /\ call.draws.tly > 0
  /\ call.image[0][call.draws.brx][call.draws.tly] = call.draws.value[0]
  /\ call.image[0][call.draws.brx][call.draws.tly] # input_image[0][call.draws.brx][call.draws.tly]

\* C3: random_crop returns, for offsets tlx, tly in 0..4, the 32x32 window of
\* the image zero-padded by 2: pixel [c][r][k] is input pixel
\* [c][r + tlx - 2][k + tly - 2] when that lies in the image and 0
\* otherwise; the offset (2, 2) returns the input unchanged.
C3_CropWindow ==
  ValidCall("random_crop") =>
    /\ call.status = "ok"
    /\ call.tlx \in 0..4 /\ call.tly \in 0..4
    /\ \A c \in Channels, r \in Pix, k \in Pix :
         call.image[c][r][k] =
           IF r + call.tlx - 2 \in Pix /\ k + call.tly - 2 \in Pix
           THEN ToFloat(input_image[c][r + call.tlx - 2][k + call.tly - 2]) ELSE 0
    /\ (call.tlx = 2 /\ call.tly = 2) =>
         \A c \in Channels, r \in Pix, k \in Pix : call.image[c][r][k] = ToFloat(input_image[c][r][k])

\* A crop of a valid image at an offset that takes in padding on one side
\* and image pixels shifted by different amounts on the two axes.
C3_Witness ==
  /\ ValidCall("random_crop")
  /\ call.tlx = 0 /\ call.tly = 3
  /\ call.image[1][0][5] = 0
  /\ call.image[1][2][5] = ToFloat(input_image[1][0][6])

\* C4: in random_rotation with the angle 0 every source pixel (i, j) maps
\* to destination (i, j), the returned image equals the input at every
\* pixel, and no destination pixel is left unwritten.
C4_RotationZeroIdentity ==
  (ValidCall("random_rotation") /\ call.theta = 0) =>
    /\ call.status = "ok"
    /\ \A i \in Pix, j \in Pix :
         /\ RawRow(Cos(0), Sin(0), i, j) = i
         /\ RawCol(Cos(0), Sin(0), i, j) = j
         /\ call.dst[i][j]
         /\ \A c \in Channels : call.image[c][i][j] = ToFloat(input_image[c][i][j])

\* A rotation of a valid image by the angle 0 has returned.
C4_Witness ==
  /\ ValidCall("random_rotation")
  /\ call.theta = 0
  /\ call.status = "ok"
  /\ call.src[5][7]

\* C5: in contrast_and_horizontal_flipping with the flip draw <= 0.5, every
\* returned pixel equals min(255, max(0, alpha * (v - 128) + 128)) for the
\* input value v, with v - 128 the signed difference.
C5_ContrastSignedDifference ==
  (ValidCall("contrast_and_horizontal_flipping") /\ call.p <= 5) =>
    /\ call.status = "ok"
    /\ \A c \in Channels, i \in Pix, j \in Pix :
         LET x == call.alpha * (input_image[c][i][j] - 128) + ToFloat(128)
             lo == IF x < 0 THEN 0 ELSE x
         IN call.image[c][i][j] = IF lo > ToFloat(255) THEN ToFloat(255) ELSE lo

\* C6: in random_rotation a source pixel whose rounded destination row or
\* column is outside 0..31 is written to no destination pixel (the uint8
\* cast never brings it into range), and every destination pixel never
\* written stays 0.
C6_OutOfRangeDropped ==
  ValidCall("random_rotation") =>
    /\ call.status = "ok"
    /\ \A i \in Pix, j \in Pix :
         (\/ RawRow(Cos(-call.theta), Sin(-call.theta), i, j) \notin Pix
          \/ RawCol(Cos(-call.theta), Sin(-call.theta), i, j) \notin Pix) => ~call.src[i][j]
    /\ \A a \in Pix, b \in Pix :
         ~call.dst[a][b] => \A c \in Channels : call.image[c][a][b] = 0

\* C8: for a valid input image each of the four transforms returns an image
\* of shape 3x32x32 whose every value lies in 0..255.
C8_ShapeAndRange ==
  (call.fn # "none" /\ pc = "returned" /\ IsValidShape(input_image)) =>
    /\ call.status = "ok"
    /\ Shape(call.image) = <<3, 32, 32>>
    /\ \A c \in Channels, i \in Pix, j \in Pix :
         call.image[c][i][j] >= 0 /\ call.image[c][i][j] <= MaxValue

\* A contrast change of a valid image by alpha = 2.0 where the clip to 255
\* and the clip to 0 both took effect.
C8_Witness ==
  /\ ValidCall("contrast_and_horizontal_flipping")
  /\ call.alpha = 2 * AlphaDen /\ call.p <= 5 /\ call.promotion = "legacy"
  /\ \E c \in Channels, i \in Pix, j \in Pix :
       call.image[c][i][j] = ToFloat(255) /\ input_image[c][i][j] < 255
  /\ \E c \in Channels, i \in Pix, j \in Pix :
       call.image[c][i][j] = 0 /\ input_image[c][i][j] > 0

\* C9: in random_cutout the erased block's width and height (brx - tlx + 1
\* rows, bry - tly + 1 columns) are each in the range 0 to 16.
C9_CutoutExtentAtMost16 ==
  Returned("random_cutout") =>
    /\ call.draws.brx - call.draws.tlx + 1 \in 0..16
    /\ call.draws.bry - call.draws.tly + 1 \in 0..16

\* C10: a transform called with an input whose shape is not 3x32x32 ends
\* in a ShapeMismatch error and produces no output image.
C10_WrongShapeRejected ==
  (call.fn # "none" /\ pc = "returned" /\ ~IsValidShape(input_image)) =>
    call.status = "ShapeMismatch"

\* The transform selected by operation (0 rotation, 1 cutout, 2 crop,
\* 3 contrast and flip) applied to img with the draws d
Selected(operation, img, d) ==
  CASE operation = 0 -> random_rotation(img, d.theta, d.cast).image
    [] operation = 1 -> random_cutout(img, d.value, d.tlx, d.tly, d.brx, d.bry).image
    [] operation = 2 -> random_crop(img, d.tlx, d.tly).image
    [] operation = 3 -> contrast_and_horizontal_flipping(img, d.alpha, d.p, d.promotion).image

\* C7: in the augmentation loop, after k images the list of augmented images
\* has exactly k entries; an iteration appends the result of the transform
\* selected by operations[i] applied to input image i and leaves the earlier
\* entries alone; when the loop has finished there is one augmented image
\* per input image, in input order, paired with the unchanged label list.
C7_LoopAugmentsInOrder ==
  /\ [](/\ Len(augmented_images) = loop_i
        /\ loop_i <= NumTrain
        /\ images = DatasetImages
        /\ labels = DatasetLabels)
  /\ [][loop_i' # loop_i =>
          /\ loop_i' = loop_i + 1
          /\ \E dtype \in {"uint8", "float64"} :
               augmented_images' =
                 Append(augmented_images,
                        [dtype |-> dtype,
                         image |-> Selected(operations[loop_i], DatasetImages[loop_i], drawlog'[loop_i + 1])])]_vars
  /\ [](pc = "done" =>
          /\ loop_i = NumTrain
          /\ Len(augmented_images) = NumTrain
          /\ augmented_dataset.labels = DatasetLabels
          /\ DOMAIN augmented_dataset.images = 0..(NumTrain - 1)
          /\ \A n \in 0..(NumTrain - 1) :
               augmented_dataset.images[n] = AsFloat64(augmented_images[n + 1]))

\* The loop has finished on a dataset in which the two first images were
\* given different transforms.
C7_Witness ==
  /\ pc = "done"
  /\ Len(augmented_images) = NumTrain
  /\ operations[0] = 1 /\ operations[1] = 3
  /\ augmented_images[1] # augmented_images[2]

====
